---- MODULE Spec2Model ----
(***************************************************************************)
(* Model of the IrisTracker class of src/iris-tracker.js: the per-frame    *)
(* pipeline (onResults -> processEyeTracking), the blink detector, the     *)
(* gaze smoothing, the gesture-phase state machine and the timers that     *)
(* advanceToPhase, triggerFlash and showFinalMessage schedule.             *)
(*                                                                         *)
(* Numbers.  JavaScript numbers are modelled by integers in fixed units so *)
(* that every mean the code computes is exact:                             *)
(*   - gaze ratios are in units of 1/6000 (0.65 is 3900, 0.35 is 2100,     *)
(*     0.5 is 3000); 6000 is divisible by every window length 1..5 and by  *)
(*     2, so the two-eye average and the moving average are integers for   *)
(*     the inputs drawn here;                                              *)
(*   - EAR values are in units of 1/100 (0.21 is 21).                      *)
(***************************************************************************)
EXTENDS Integers, Sequences, FiniteSets

VARIABLES
    currentPhase,       \* this.currentPhase
    phaseCompleted,     \* this.phaseCompleted, indexed 0..3
    leftGazeFrames,     \* this.leftGazeFrames
    rightGazeFrames,    \* this.rightGazeFrames
    blinkCount,         \* this.blinkCount
    blinkFrameCounter,  \* this.blinkFrameCounter
    gazeHistory,        \* this.gazeHistory: sequence of [h, v]
    gazePoint,          \* the gazePoint of the latest processed frame
    circleTrailEnabled, \* this.circleTrailEnabled
    trailCtx,           \* this.trailCtx is set (initTrailCanvas has run)
    lastTrailPoint,     \* this.lastTrailPoint
    flashCount,         \* number of triggerFlash() calls so far
    flashActive,        \* flashOverlay has class 'active'
    overlayVisible,     \* instructionsOverlay has class 'visible'
    instructionText,    \* instructionText.textContent
    instructionAction,  \* instructionAction.textContent
    actionOpacity,      \* instructionAction.style.opacity
    finalShown,         \* final-message elements that have class 'visible'
    timers,             \* pending setTimeout callbacks
    earInputs,          \* samples passed to detectBlink by the blink harness
    evalLog,            \* gaze values the detector harness passed to the active
                        \* phase's detector since its sustain counter was last 0
    logPhase,           \* the phase whose evaluations evalLog holds
    earHistory,         \* this.earHistory
    pupilSizeHistory,   \* this.pupilSizeHistory
    smoothPupilSize,    \* the smoothPupilSize of the latest processed frame
    earChart,           \* points of the EAR curve on the chart, 0 when cleared
    frameLog,           \* the face-bearing frames processed so far, in order
    isRunning,          \* this.isRunning
    animationId,        \* this.animationId: "null", or the id of a callback
                        \* that is still "pending" or has already "run"
    otherCallbacks,     \* pending processFrame callbacks whose id is no
                        \* longer the one this.animationId holds
    sends,              \* faceMesh.send() calls in flight
    awaitingCamera,     \* start() calls waiting for getUserMedia
    awaitingPlay,       \* start() calls waiting for videoElement.play()
    stream,             \* this.stream is set
    liveStreams,        \* camera streams whose tracks have not been stopped
    preloadedStream,    \* window.preloadedStream is set
    startCalls,         \* start() calls that went past the isRunning guard
    afterStop,          \* stop() has run and start() was not called since
    landmarksIn,        \* eye and iris landmarks given to calculateGazeRatio
    ratioOut,           \* what calculateGazeRatio returned for them
    experienceStarted,  \* the page's experienceStarted flag
    pageShown,          \* page elements startExperience has made visible
    overlayElements     \* the page has instructionsOverlay and instructionText

\* The frame-processing loop and the camera.
LoopVars == << isRunning, animationId, otherCallbacks, sends, awaitingCamera,
               awaitingPlay, stream, liveStreams, preloadedStream, startCalls,
               afterStop >>

\* What processEyeTracking alone writes besides the phase machinery.
HistoryVars == << earHistory, pupilSizeHistory, smoothPupilSize, earChart >>

\* The input and the result of calculateGazeRatio taken alone.
RatioVars == << landmarksIn, ratioOut >>

\* What startExperience alone writes, and what the page is made of.
PageVars == << experienceStarted, pageShown, overlayElements >>

vars == << currentPhase, phaseCompleted, leftGazeFrames, rightGazeFrames,
           blinkCount, blinkFrameCounter, gazeHistory, gazePoint,
           circleTrailEnabled, trailCtx, lastTrailPoint, flashCount,
           flashActive, overlayVisible, instructionText, instructionAction,
           actionOpacity, finalShown, timers, earInputs, evalLog, logPhase,
           HistoryVars, frameLog, LoopVars, RatioVars, PageVars >>

(***************************************************************************)
(* Program constants (constructor).                                        *)
(***************************************************************************)
EAR_THRESHOLD == 21
BLINK_CONSEC_FRAMES == 2
maxGazeHistory == 5
maxEarHistory == 100
maxPupilHistory == 30
leftGazeThreshold == 3900
leftGazeRequired == 10
rightGazeThreshold == 2100
rightGazeRequired == 10
screenWidth == 1200
screenHeight == 600

(***************************************************************************)
(* Bounds of the model.                                                    *)
(***************************************************************************)
MaxSamples == 7       \* length of the sample sequences of the blink harness
FreeFrames == 3       \* frames of the long-run harness that are chosen freely
MaxHistFrames == 103  \* face-bearing frames of one long run
EdgeLen == 12         \* evaluations of one run of the threshold harness
MaxStarts == 2        \* start() calls that go past the isRunning guard
MaxLoopFrames == 24   \* face-bearing frames the loop delivers
LogLen == 19          \* evaluations fed to one run of a sustain counter

(***************************************************************************)
(* Inputs.                                                                 *)
(***************************************************************************)
\* calculateEAR results per eye: 0.12 and 0.30; their averages are 0.12,
\* 0.21 (exactly the threshold) and 0.30.
EarRaw == {12, 30}
\* calculateGazeRatio results per eye: h is 0.2 or 0.8, v is 0.5.
GazeRawH == {1200, 4800}
GazeRawV == {3000}
\* calculatePupilSize results per eye, in pixels.
PupilRaw == {8, 12}
\* EAR samples of the blink harness: below, equal to and above the threshold.
EarSamples == {10, 21, 30}
\* Smoothed h values of the detector harness: 0.30 (right), 0.70 (left).
DetectorInputs == {1800, 4200}
\* The same with the two thresholds themselves, 0.35 and 0.65.
EdgeInputs == {1800, 2100, 3900, 4200}
\* Landmark coordinates are normalized to the image; the model takes them
\* in quarters of the image side.
CoordUnit == 4
\* Eye contour landmarks: along a vertical or a horizontal line they give a
\* bounding box of width 0 or of height 0.
EyePoints == { [x |-> 1, y |-> 1], [x |-> 3, y |-> 1], [x |-> 3, y |-> 3] }
\* Iris landmarks, inside and outside the boxes the eye points span.
IrisPoints == { [x |-> 0, y |-> 2], [x |-> 2, y |-> 2], [x |-> 4, y |-> 4] }
\* canvasElement.width and height, set from the video (1280 x 720 asked for).
canvasWidth == 1280
canvasHeight == 720

NoPoint == [x |-> -1, y |-> -1]
NoRatio == [h |-> -1, v |-> -1]
NoLandmarks == [eye |-> << >>, iris |-> << >>]
NoGaze == [x |-> -1, y |-> -1, h |-> -1, v |-> -1]

Max(a, b) == IF a >= b THEN a ELSE b

Min(a, b) == IF a <= b THEN a ELSE b

\* Math.min(...) and Math.max(...) of a non-empty set of numbers.
SetMin(S) == CHOOSE m \in S : \A k \in S : m <= k
SetMax(S) == CHOOSE m \in S : \A k \in S : m >= k

RECURSIVE SumX(_)
SumX(s) == IF s = << >> THEN 0 ELSE Head(s).x + SumX(Tail(s))

RECURSIVE SumY(_)
SumY(s) == IF s = << >> THEN 0 ELSE Head(s).y + SumY(Tail(s))

\* Array.prototype.reduce((a, b) => a + b, 0)
RECURSIVE Sum(_)
Sum(s) == IF s = << >> THEN 0 ELSE Head(s) + Sum(Tail(s))

\* Math.round(a / b) for a >= 0, b > 0.
Round(a, b) == (2 * a + b) \div (2 * b)

RECURSIVE SumH(_)
SumH(s) == IF s = << >> THEN 0 ELSE Head(s).h + SumH(Tail(s))

RECURSIVE SumV(_)
SumV(s) == IF s = << >> THEN 0 ELSE Head(s).v + SumV(Tail(s))

(***************************************************************************)
(* Timers.  A pending timer is [kind, batch, delay, seq]: batch numbers    *)
(* the handler run that registered it (handler runs that register timers   *)
(* happen at strictly increasing times), delay is the setTimeout delay in  *)
(* ms, seq the order of registration within the handler.  Timer u is       *)
(* certain to fire before timer t when it was registered no later and with *)
(* no longer a delay (registration order breaks the tie); otherwise the    *)
(* order depends on how much time passed between the two batches.          *)
(***************************************************************************)
Timer(kind, batch, delay, seq) ==
    [kind |-> kind, batch |-> batch, delay |-> delay, seq |-> seq]

Before(u, t) ==
    /\ u.batch <= t.batch
    /\ u.delay <= t.delay
    /\ (u.batch < t.batch \/ u.delay < t.delay \/ u.seq < t.seq)

\* advanceToPhase(2) registers its hide timer and, in the next statement and
\* with the same delay, its trail timer: the two are due together, so once
\* the hide timer has fired the trail timer is the next timer to fire.
Overdue(u) ==
    /\ u.kind = "trailOn"
    /\ ~\E w \in timers : w.kind = "hide" /\ w.batch = u.batch

CanFire(t) ==
    /\ t \in timers
    /\ \A u \in timers \ {t} : ~Before(u, t) /\ ~Overdue(u)

(***************************************************************************)
(* The tracker fields and page elements the phase machinery reads and      *)
(* writes, as one record, so that the methods below are functions from the *)
(* tracker before the call to the tracker after it.  overlayElements tells *)
(* whether the page has the instructionsOverlay and instructionText        *)
(* elements advanceToPhase looks up; the other elements the methods look   *)
(* up by id (instructionAction, flashOverlay, circleTrailCanvas,           *)
(* finalMessage and its parts) are taken to exist.                         *)
(***************************************************************************)
Self ==
    [currentPhase |-> currentPhase, phaseCompleted |-> phaseCompleted,
     leftGazeFrames |-> leftGazeFrames, rightGazeFrames |-> rightGazeFrames,
     flashCount |-> flashCount, flashActive |-> flashActive,
     overlayVisible |-> overlayVisible, instructionText |-> instructionText,
     instructionAction |-> instructionAction, actionOpacity |-> actionOpacity,
     trailCtx |-> trailCtx, finalShown |-> finalShown, timers |-> timers,
     overlayElements |-> overlayElements]

\* The tracker after the call becomes the next state.
Becomes(s) ==
    /\ currentPhase' = s.currentPhase
    /\ phaseCompleted' = s.phaseCompleted
    /\ leftGazeFrames' = s.leftGazeFrames
    /\ rightGazeFrames' = s.rightGazeFrames
    /\ flashCount' = s.flashCount
    /\ flashActive' = s.flashActive
    /\ overlayVisible' = s.overlayVisible
    /\ instructionText' = s.instructionText
    /\ instructionAction' = s.instructionAction
    /\ actionOpacity' = s.actionOpacity
    /\ trailCtx' = s.trailCtx
    /\ finalShown' = s.finalShown
    /\ timers' = s.timers

\* triggerFlash(): the flash overlay turns active and a 200 ms timer is set
\* to remove it.  It runs before advanceToPhase in the same handler, so its
\* timer belongs to the batch of the phase being entered.
TriggerFlash(s) ==
    [s EXCEPT !.flashCount = @ + 1,
              !.flashActive = TRUE,
              !.timers = @ \cup {Timer("flashOff", s.currentPhase + 1, 200, 0)}]

\* enables the trail a second before the instruction is hidden
AdvanceToPhase_TrailEarly(s, phase) ==
    LET s0 == [s EXCEPT !.currentPhase = phase]
        s1 == [s0 EXCEPT !.overlayVisible = TRUE]
    IN  IF ~s.overlayElements THEN s0
        ELSE IF phase = 1
        THEN [s1 EXCEPT !.instructionText = "GOOD",
                        !.instructionAction = "NOW LOOK RIGHT",
                        !.actionOpacity = 0,
                        !.timers = @ \cup {Timer("fadeIn", 1, 2000, 1),
                                           Timer("hide", 1, 5000, 2)}]
        ELSE IF phase = 2
        THEN [s1 EXCEPT !.instructionText = "PERFECT",
                        !.instructionAction = "NOW DRAW A CIRCLE",
                        !.actionOpacity = 0,
                        !.trailCtx = TRUE,
                        !.timers = @ \cup {Timer("fadeIn", 2, 2000, 1),
                                           Timer("trailOn", 2, 5000, 2),
                                           Timer("hide", 2, 6000, 3),
                                           Timer("final", 2, 16000, 4)}]
        ELSE s1

\* advanceToPhase(phase)
AdvanceToPhase(s, phase) ==
    LET s0 == [s EXCEPT !.currentPhase = phase]
        s1 == [s0 EXCEPT !.overlayVisible = TRUE]
    IN  IF ~s.overlayElements THEN s0
        ELSE IF phase = 1
        THEN [s1 EXCEPT !.instructionText = "GOOD",
                        !.instructionAction = "NOW LOOK RIGHT",
                        !.actionOpacity = 0,
                        !.timers = @ \cup {Timer("fadeIn", 1, 2000, 1),
                                           Timer("hide", 1, 5000, 2)}]
        ELSE IF phase = 2
        THEN [s1 EXCEPT !.instructionText = "PERFECT",
                        !.instructionAction = "NOW DRAW A CIRCLE",
                        !.actionOpacity = 0,
                        !.trailCtx = TRUE,
                        !.timers = @ \cup {Timer("fadeIn", 2, 2000, 1),
                                           Timer("hide", 2, 6000, 2),
                                           Timer("trailOn", 2, 6000, 3),
                                           Timer("final", 2, 16000, 4)}]
        ELSE s1

(***************************************************************************)
(* Faulty variants of the detectors, each one slip away from the code      *)
(* below; the properties are checked to tell them from it.                 *)
(***************************************************************************)
\* advances to phase 2 (the call copied from detectRightGaze)
DetectLeftGaze_WrongPhase(s, g) ==
    IF s.currentPhase # 0 \/ s.phaseCompleted[0] THEN s
    ELSE IF g.h > leftGazeThreshold
    THEN LET s1 == [s EXCEPT !.leftGazeFrames = @ + 1]
         IN  IF s1.leftGazeFrames >= leftGazeRequired
             THEN AdvanceToPhase(
                      [TriggerFlash(s1) EXCEPT !.phaseCompleted[0] = TRUE,
                                               !.leftGazeFrames = 0], 2)
             ELSE s1
    ELSE IF s.leftGazeFrames > 0
    THEN [s EXCEPT !.leftGazeFrames = Max(0, @ - 2)]
    ELSE s

\* requires the counter to exceed leftGazeRequired
DetectLeftGaze_Late(s, g) ==
    IF s.currentPhase # 0 \/ s.phaseCompleted[0] THEN s
    ELSE IF g.h > leftGazeThreshold
    THEN LET s1 == [s EXCEPT !.leftGazeFrames = @ + 1]
         IN  IF s1.leftGazeFrames > leftGazeRequired
             THEN AdvanceToPhase(
                      [TriggerFlash(s1) EXCEPT !.phaseCompleted[0] = TRUE,
                                               !.leftGazeFrames = 0], 1)
             ELSE s1
    ELSE IF s.leftGazeFrames > 0
    THEN [s EXCEPT !.leftGazeFrames = Max(0, @ - 2)]
    ELSE s

\* lacks the early return
DetectLeftGaze_NoGuard(s, g) ==
    IF FALSE THEN s
    ELSE IF g.h > leftGazeThreshold
    THEN LET s1 == [s EXCEPT !.leftGazeFrames = @ + 1]
         IN  IF s1.leftGazeFrames >= leftGazeRequired
             THEN AdvanceToPhase(
                      [TriggerFlash(s1) EXCEPT !.phaseCompleted[0] = TRUE,
                                               !.leftGazeFrames = 0], 1)
             ELSE s1
    ELSE IF s.leftGazeFrames > 0
    THEN [s EXCEPT !.leftGazeFrames = Max(0, @ - 2)]
    ELSE s

\* decays by 1 on a frame that does not qualify
DetectLeftGaze_Decay1(s, g) ==
    IF s.currentPhase # 0 \/ s.phaseCompleted[0] THEN s
    ELSE IF g.h > leftGazeThreshold
    THEN LET s1 == [s EXCEPT !.leftGazeFrames = @ + 1]
         IN  IF s1.leftGazeFrames >= leftGazeRequired
             THEN AdvanceToPhase(
                      [TriggerFlash(s1) EXCEPT !.phaseCompleted[0] = TRUE,
                                               !.leftGazeFrames = 0], 1)
             ELSE s1
    ELSE IF s.leftGazeFrames > 0
    THEN [s EXCEPT !.leftGazeFrames = Max(0, @ - 1)]
    ELSE s

\* resets the counter on a frame that does not qualify
DetectLeftGaze_ResetOnBreak(s, g) ==
    IF s.currentPhase # 0 \/ s.phaseCompleted[0] THEN s
    ELSE IF g.h > leftGazeThreshold
    THEN LET s1 == [s EXCEPT !.leftGazeFrames = @ + 1]
         IN  IF s1.leftGazeFrames >= leftGazeRequired
             THEN AdvanceToPhase(
                      [TriggerFlash(s1) EXCEPT !.phaseCompleted[0] = TRUE,
                                               !.leftGazeFrames = 0], 1)
             ELSE s1
    ELSE IF s.leftGazeFrames > 0
    THEN [s EXCEPT !.leftGazeFrames = 0]
    ELSE s

\* returns early only when phase 1 is completed, whatever the phase
DetectRightGaze_NoPhaseCheck(s, g) ==
    IF s.phaseCompleted[1] THEN s
    ELSE IF g.h < rightGazeThreshold
    THEN LET s1 == [s EXCEPT !.rightGazeFrames = @ + 1]
         IN  IF s1.rightGazeFrames >= rightGazeRequired
             THEN AdvanceToPhase(
                      [TriggerFlash(s1) EXCEPT !.phaseCompleted[1] = TRUE,
                                               !.rightGazeFrames = 0], 2)
             ELSE s1
    ELSE IF s.rightGazeFrames > 0
    THEN [s EXCEPT !.rightGazeFrames = Max(0, @ - 2)]
    ELSE s

\* lacks the early return
DetectRightGaze_NoGuard(s, g) ==
    IF FALSE THEN s
    ELSE IF g.h < rightGazeThreshold
    THEN LET s1 == [s EXCEPT !.rightGazeFrames = @ + 1]
         IN  IF s1.rightGazeFrames >= rightGazeRequired
             THEN AdvanceToPhase(
                      [TriggerFlash(s1) EXCEPT !.phaseCompleted[1] = TRUE,
                                               !.rightGazeFrames = 0], 2)
             ELSE s1
    ELSE IF s.rightGazeFrames > 0
    THEN [s EXCEPT !.rightGazeFrames = Max(0, @ - 2)]
    ELSE s

\* leaves the counter at its required count
DetectRightGaze_NoReset(s, g) ==
    IF s.currentPhase # 1 \/ s.phaseCompleted[1] THEN s
    ELSE IF g.h < rightGazeThreshold
    THEN LET s1 == [s EXCEPT !.rightGazeFrames = @ + 1]
         IN  IF s1.rightGazeFrames >= rightGazeRequired
             THEN AdvanceToPhase(
                      [TriggerFlash(s1) EXCEPT !.phaseCompleted[1] = TRUE], 2)
             ELSE s1
    ELSE IF s.rightGazeFrames > 0
    THEN [s EXCEPT !.rightGazeFrames = Max(0, @ - 2)]
    ELSE s

\* does not call triggerFlash
DetectRightGaze_NoFlash(s, g) ==
    IF s.currentPhase # 1 \/ s.phaseCompleted[1] THEN s
    ELSE IF g.h < rightGazeThreshold
    THEN LET s1 == [s EXCEPT !.rightGazeFrames = @ + 1]
         IN  IF s1.rightGazeFrames >= rightGazeRequired
             THEN AdvanceToPhase(
                      [s1 EXCEPT !.phaseCompleted[1] = TRUE,
                                               !.rightGazeFrames = 0], 2)
             ELSE s1
    ELSE IF s.rightGazeFrames > 0
    THEN [s EXCEPT !.rightGazeFrames = Max(0, @ - 2)]
    ELSE s

\* counts a blink only after more than BLINK_CONSEC_FRAMES frames
DetectBlink_Strict(b, ear) ==
    IF ear < EAR_THRESHOLD
    THEN [blinkCount |-> b.blinkCount,
          blinkFrameCounter |-> b.blinkFrameCounter + 1,
          isBlinking |-> FALSE]
    ELSE [blinkCount |-> IF b.blinkFrameCounter > BLINK_CONSEC_FRAMES
                         THEN b.blinkCount + 1 ELSE b.blinkCount,
          blinkFrameCounter |-> 0,
          isBlinking |-> b.blinkFrameCounter > BLINK_CONSEC_FRAMES]

\* reports the blink when the eye has closed, on the frame that completes
\* the run of BLINK_CONSEC_FRAMES, instead of when it reopens
DetectBlink_OnClose(b, ear) ==
    IF ear < EAR_THRESHOLD
    THEN [blinkCount |-> IF b.blinkFrameCounter + 1 = BLINK_CONSEC_FRAMES
                         THEN b.blinkCount + 1 ELSE b.blinkCount,
          blinkFrameCounter |-> b.blinkFrameCounter + 1,
          isBlinking |-> b.blinkFrameCounter + 1 = BLINK_CONSEC_FRAMES]
    ELSE [blinkCount |-> b.blinkCount,
          blinkFrameCounter |-> 0,
          isBlinking |-> FALSE]

\* adds the closed frames of the run to blinkCount instead of one blink
DetectBlink_AddsFrames(b, ear) ==
    IF ear < EAR_THRESHOLD
    THEN [blinkCount |-> b.blinkCount,
          blinkFrameCounter |-> b.blinkFrameCounter + 1,
          isBlinking |-> FALSE]
    ELSE [blinkCount |-> IF b.blinkFrameCounter >= BLINK_CONSEC_FRAMES
                         THEN b.blinkCount + b.blinkFrameCounter
                         ELSE b.blinkCount,
          blinkFrameCounter |-> 0,
          isBlinking |-> b.blinkFrameCounter >= BLINK_CONSEC_FRAMES]

\* pushes without ever shifting the oldest entry out
Push_NoShift(hist, x, max) == Append(hist, x)

\* divides the sums by the window length maxGazeHistory, not by the number
\* of entries the history holds
GazePointOf_FixedWindow(hist) ==
    LET avgH == SumH(hist) \div maxGazeHistory
        avgV == SumV(hist) \div maxGazeHistory
    IN  [x |-> Round(avgH * screenWidth, 6000),
         y |-> Round(avgV * screenHeight, 6000),
         h |-> avgH, v |-> avgV]

\* takes the mean before the new sample is pushed
SmoothPupil_BeforePush(hist) ==
    [sum |-> Sum(SubSeq(hist, 1, Len(hist) - 1)), count |-> Len(hist) - 1]

\* divides the pupil sum by maxPupilHistory
SmoothPupil_FixedWindow(hist) == [sum |-> Sum(hist), count |-> maxPupilHistory]

\* the right threshold itself counts as looking right
DetectRightGaze_Inclusive(s, g) ==
    IF s.currentPhase # 1 \/ s.phaseCompleted[1] THEN s
    ELSE IF g.h <= rightGazeThreshold
    THEN LET s1 == [s EXCEPT !.rightGazeFrames = @ + 1]
         IN  IF s1.rightGazeFrames >= rightGazeRequired
             THEN AdvanceToPhase(
                      TriggerFlash([s1 EXCEPT !.phaseCompleted[1] = TRUE,
                                              !.rightGazeFrames = 0]), 2)
             ELSE s1
    ELSE [s EXCEPT !.rightGazeFrames = Max(0, @ - 2)]

\* clamps the ratios to 0..1
CalculateGazeRatio_Clamped(iris, eye, width, height) ==
    LET cx == (SumX(iris) * width) \div (Len(iris) * CoordUnit)
        cy == (SumY(iris) * height) \div (Len(iris) * CoordUnit)
        xs == { (eye[i].x * width) \div CoordUnit : i \in 1..Len(eye) }
        ys == { (eye[i].y * height) \div CoordUnit : i \in 1..Len(eye) }
        eyeWidth == SetMax(xs) - SetMin(xs)
        eyeHeight == SetMax(ys) - SetMin(ys)
    IN  IF eyeWidth > 0 /\ eyeHeight > 0
        THEN [h |-> Max(0, Min(6000, (6000 * (cx - SetMin(xs))) \div eyeWidth)),
              v |-> Max(0, Min(6000, (6000 * (cy - SetMin(ys))) \div eyeHeight))]
        ELSE [h |-> 3000, v |-> 3000]

\* forwards the gaze point whether or not the trail is enabled
AddTrailPoint_Always(enabled, ctx, last, g) == [x |-> g.x, y |-> g.y]

\* decrements by 2 without the floor at 0
DetectLeftGaze_NoFloor(s, g) ==
    IF s.currentPhase # 0 \/ s.phaseCompleted[0] THEN s
    ELSE IF g.h > leftGazeThreshold
    THEN LET s1 == [s EXCEPT !.leftGazeFrames = @ + 1]
         IN  IF s1.leftGazeFrames >= leftGazeRequired
             THEN AdvanceToPhase(
                      [TriggerFlash(s1) EXCEPT !.phaseCompleted[0] = TRUE,
                                               !.leftGazeFrames = 0], 1)
             ELSE s1
    ELSE IF s.leftGazeFrames > 0
    THEN [s EXCEPT !.leftGazeFrames = @ - 2]
    ELSE s

\* leaves the left counter at its required count
DetectLeftGaze_NoReset(s, g) ==
    IF s.currentPhase # 0 \/ s.phaseCompleted[0] THEN s
    ELSE IF g.h > leftGazeThreshold
    THEN LET s1 == [s EXCEPT !.leftGazeFrames = @ + 1]
         IN  IF s1.leftGazeFrames >= leftGazeRequired
             THEN AdvanceToPhase(
                      [TriggerFlash(s1) EXCEPT !.phaseCompleted[0] = TRUE], 1)
             ELSE s1
    ELSE IF s.leftGazeFrames > 0
    THEN [s EXCEPT !.leftGazeFrames = Max(0, @ - 2)]
    ELSE s

\* requires the counter to exceed rightGazeRequired
DetectRightGaze_Late(s, g) ==
    IF s.currentPhase # 1 \/ s.phaseCompleted[1] THEN s
    ELSE IF g.h < rightGazeThreshold
    THEN LET s1 == [s EXCEPT !.rightGazeFrames = @ + 1]
         IN  IF s1.rightGazeFrames > rightGazeRequired
             THEN AdvanceToPhase(
                      [TriggerFlash(s1) EXCEPT !.phaseCompleted[1] = TRUE,
                                               !.rightGazeFrames = 0], 2)
             ELSE s1
    ELSE IF s.rightGazeFrames > 0
    THEN [s EXCEPT !.rightGazeFrames = Max(0, @ - 2)]
    ELSE s

\* marks phase 2 completed when the final message is shown
ShowFinalMessage_MarksDone(s) ==
    [s EXCEPT !.currentPhase = 3,
              !.phaseCompleted[2] = TRUE,
              !.finalShown = @ \cup {"finalMessage"},
              !.timers = @ \cup {Timer("header", 3, 800, 1),
                                 Timer("body", 3, 3500, 2),
                                 Timer("cta", 3, 10000, 3)}]

\* detectLeftGaze(gazePoint)
DetectLeftGaze(s, g) ==
    IF s.currentPhase # 0 \/ s.phaseCompleted[0] THEN s
    ELSE IF g.h > leftGazeThreshold
    THEN LET s1 == [s EXCEPT !.leftGazeFrames = @ + 1]
         IN  IF s1.leftGazeFrames >= leftGazeRequired
             THEN AdvanceToPhase(
                      [TriggerFlash(s1) EXCEPT !.phaseCompleted[0] = TRUE,
                                               !.leftGazeFrames = 0], 1)
             ELSE s1
    ELSE IF s.leftGazeFrames > 0
    THEN [s EXCEPT !.leftGazeFrames = Max(0, @ - 2)]
    ELSE s

\* detectRightGaze(gazePoint)
DetectRightGaze(s, g) ==
    IF s.currentPhase # 1 \/ s.phaseCompleted[1] THEN s
    ELSE IF g.h < rightGazeThreshold
    THEN LET s1 == [s EXCEPT !.rightGazeFrames = @ + 1]
         IN  IF s1.rightGazeFrames >= rightGazeRequired
             THEN AdvanceToPhase(
                      [TriggerFlash(s1) EXCEPT !.phaseCompleted[1] = TRUE,
                                               !.rightGazeFrames = 0], 2)
             ELSE s1
    ELSE IF s.rightGazeFrames > 0
    THEN [s EXCEPT !.rightGazeFrames = Max(0, @ - 2)]
    ELSE s

\* processEyeTracking, "Detect gaze based on current phase": both detectors
\* run on every frame, left first.
DetectGaze(s, g) == DetectRightGaze(DetectLeftGaze(s, g), g)

\* detectBlink(ear) on counters [blinkCount, blinkFrameCounter]; the result
\* also carries the returned isBlinking.
DetectBlink(b, ear) ==
    IF ear < EAR_THRESHOLD
    THEN [blinkCount |-> b.blinkCount,
          blinkFrameCounter |-> b.blinkFrameCounter + 1,
          isBlinking |-> FALSE]
    ELSE [blinkCount |-> IF b.blinkFrameCounter >= BLINK_CONSEC_FRAMES
                         THEN b.blinkCount + 1 ELSE b.blinkCount,
          blinkFrameCounter |-> 0,
          isBlinking |-> b.blinkFrameCounter >= BLINK_CONSEC_FRAMES]

Blink == [blinkCount |-> blinkCount, blinkFrameCounter |-> blinkFrameCounter]

\* "Store EAR history" and the pupil history: push, then shift when the
\* history is longer than its maximum.
Push(hist, x, max) ==
    LET h1 == Append(hist, x)
    IN  IF Len(h1) > max THEN Tail(h1) ELSE h1

\* updateEARChart(): the canvas is cleared, and the curve is drawn, one point
\* per sample, unless earHistory holds fewer than 2 samples.
UpdateEARChart(hist) == IF Len(hist) < 2 THEN 0 ELSE Len(hist)

\* The quotient sum / count that smoothPupilSize is, kept as the two numbers.
NoPupil == [sum |-> 0, count |-> 0]
SmoothPupil(hist) == [sum |-> Sum(hist), count |-> Len(hist)]

\* estimateGazePoint, "Apply smoothing": push, then drop the oldest entry
\* when the history is longer than maxGazeHistory.
PushGaze(hist, g) ==
    LET h1 == Append(hist, g)
    IN  IF Len(h1) > maxGazeHistory THEN Tail(h1) ELSE h1

\* estimateGazePoint(leftGaze, rightGaze) on the history after the push.
GazePointOf(hist) ==
    LET avgH == SumH(hist) \div Len(hist)
        avgV == SumV(hist) \div Len(hist)
    IN  [x |-> Round(avgH * screenWidth, 6000),
         y |-> Round(avgV * screenHeight, 6000),
         h |-> avgH, v |-> avgV]

\* The two-eye average estimateGazePoint pushes.
AvgGaze(leftGaze, rightGaze) ==
    [h |-> (leftGaze.h + rightGaze.h) \div 2,
     v |-> (leftGaze.v + rightGaze.v) \div 2]

\* getCenter(landmarks, width, height), in pixels.
GetCenter(landmarks, width, height) ==
    [x |-> (SumX(landmarks) * width) \div (Len(landmarks) * CoordUnit),
     y |-> (SumY(landmarks) * height) \div (Len(landmarks) * CoordUnit)]

\* calculateGazeRatio(irisLandmarks, eyeLandmarks, width, height); the
\* ratios in units of 1/6000.
CalculateGazeRatio(iris, eye, width, height) ==
    LET irisCenter == GetCenter(iris, width, height)
        xs == { (eye[i].x * width) \div CoordUnit : i \in 1..Len(eye) }
        ys == { (eye[i].y * height) \div CoordUnit : i \in 1..Len(eye) }
        minX == SetMin(xs)
        maxX == SetMax(xs)
        minY == SetMin(ys)
        maxY == SetMax(ys)
        eyeWidth == maxX - minX
        eyeHeight == maxY - minY
    IN  IF eyeWidth > 0 /\ eyeHeight > 0
        THEN [h |-> (6000 * (irisCenter.x - minX)) \div eyeWidth,
              v |-> (6000 * (irisCenter.y - minY)) \div eyeHeight]
        ELSE [h |-> 3000, v |-> 3000]

\* addTrailPoint(gazePoint), called when circleTrailEnabled.
AddTrailPoint(enabled, ctx, last, g) ==
    IF enabled /\ ctx THEN [x |-> g.x, y |-> g.y] ELSE last

\* showFinalMessage()
ShowFinalMessage(s) ==
    [s EXCEPT !.currentPhase = 3,
              !.finalShown = @ \cup {"finalMessage"},
              !.timers = @ \cup {Timer("header", 3, 800, 1),
                                 Timer("body", 3, 3500, 2),
                                 Timer("cta", 3, 10000, 3)}]

(***************************************************************************)
(* Initial state: the constructor, and the page before any instruction.    *)
(***************************************************************************)
Constructed ==
    /\ currentPhase = 0
    /\ phaseCompleted = [i \in 0..3 |-> FALSE]
    /\ leftGazeFrames = 0
    /\ rightGazeFrames = 0
    /\ blinkCount = 0
    /\ blinkFrameCounter = 0
    /\ gazeHistory = << >>
    /\ gazePoint = NoGaze
    /\ circleTrailEnabled = FALSE
    /\ trailCtx = FALSE
    /\ lastTrailPoint = NoPoint
    /\ flashCount = 0
    /\ flashActive = FALSE
    /\ overlayVisible = FALSE
    /\ instructionText = ""
    /\ instructionAction = ""
    /\ actionOpacity = 1
    /\ finalShown = {}
    /\ timers = {}
    /\ earHistory = << >>
    /\ pupilSizeHistory = << >>
    /\ smoothPupilSize = NoPupil
    /\ earChart = 0
    /\ isRunning = FALSE
    /\ animationId = "null"
    /\ otherCallbacks = 0
    /\ sends = 0
    /\ awaitingCamera = 0
    /\ awaitingPlay = 0
    /\ stream = FALSE
    /\ startCalls = 0
    /\ afterStop = FALSE
    /\ earInputs = << >>
    /\ evalLog = << >>
    /\ logPhase = 0
    /\ frameLog = << >>
    /\ ratioOut = NoRatio

\* The page as loaded: startExperience has not run.
PageLoaded == experienceStarted = FALSE /\ pageShown = {}

\* The page has the elements of the instruction overlay, or lacks them.
Pages == BOOLEAN

\* The page did not open the camera ahead of start(); no landmarks yet.
Init ==
    /\ Constructed
    /\ PageLoaded
    /\ overlayElements = TRUE
    /\ preloadedStream = FALSE
    /\ liveStreams = 0
    /\ landmarksIn = NoLandmarks

(***************************************************************************)
(* onResults(results).  r.ready: the video has a width and a height;       *)
(* r.face: results carry a face; r.earLeft, r.earRight: calculateEAR of    *)
(* the two eyes; r.leftGaze, r.rightGaze: calculateGazeRatio of the two;   *)
(* r.pupilLeft, r.pupilRight: calculatePupilSize of the two.               *)
(***************************************************************************)
\* Frames with a face on a ready video, with every combination of inputs.
FaceFrames ==
    [ready : {TRUE}, face : {TRUE}, earLeft : EarRaw, earRight : EarRaw,
     leftGaze : [h : GazeRawH, v : GazeRawV],
     rightGaze : [h : GazeRawH, v : GazeRawV],
     pupilLeft : PupilRaw, pupilRight : PupilRaw]

\* Frames without a face, or on a video that is not ready: the landmark
\* values are not read, one value of each stands for all.
IdleFrames ==
    { r \in [ready : BOOLEAN, face : BOOLEAN, earLeft : {30}, earRight : {30},
              leftGaze : [h : {4800}, v : GazeRawV],
              rightGaze : [h : {4800}, v : GazeRawV],
              pupilLeft : {12}, pupilRight : {12}] : ~r.ready \/ ~r.face }

\* Face frames of a user whose eyes stay open, whose pupils stay the same
\* and whose two eyes look the same way: the direction is free.
OpenEyeFrames ==
    { r \in FaceFrames : /\ r.earLeft = 30 /\ r.earRight = 30
                         /\ r.pupilLeft = 12 /\ r.pupilRight = 12
                         /\ r.leftGaze = r.rightGaze }

FrameInputs == OpenEyeFrames \cup IdleFrames

\* Everything onResults and the timer callbacks can write.
TrackerVars == << currentPhase, phaseCompleted, leftGazeFrames,
                  rightGazeFrames, blinkCount, blinkFrameCounter, gazeHistory,
                  gazePoint, circleTrailEnabled, trailCtx, lastTrailPoint,
                  flashCount, flashActive, overlayVisible, instructionText,
                  instructionAction, actionOpacity, finalShown, timers,
                  HistoryVars >>

\* What the harnesses record.
HarnessVars == << earInputs, evalLog, logPhase, frameLog >>

\* a frame without a face breaks the run of closed-eye frames
OnResults_ResetsRun(r) ==
    IF ~r.ready \/ ~r.face
    THEN /\ blinkFrameCounter' = 0
         /\ UNCHANGED << currentPhase, phaseCompleted, leftGazeFrames,
                         rightGazeFrames, blinkCount, gazeHistory, gazePoint,
                         circleTrailEnabled, trailCtx, lastTrailPoint,
                         flashCount, flashActive, overlayVisible,
                         instructionText, instructionAction, actionOpacity,
                         finalShown, timers, HistoryVars >>
    ELSE LET earAvg == (r.earLeft + r.earRight) \div 2
             b == DetectBlink(Blink, earAvg)
             hist == PushGaze(gazeHistory, AvgGaze(r.leftGaze, r.rightGaze))
             g == GazePointOf(hist)
             s == DetectGaze(Self, g)
             avgPupilSize == (r.pupilLeft + r.pupilRight) \div 2
             pupils == Push(pupilSizeHistory, avgPupilSize, maxPupilHistory)
             ears == Push(earHistory, earAvg, maxEarHistory)
         IN  /\ earHistory' = ears
             /\ blinkCount' = b.blinkCount
             /\ blinkFrameCounter' = b.blinkFrameCounter
             /\ gazeHistory' = hist
             /\ gazePoint' = g
             /\ Becomes(s)
             /\ lastTrailPoint' =
                    AddTrailPoint(circleTrailEnabled, s.trailCtx, lastTrailPoint, g)
             /\ pupilSizeHistory' = pupils
             /\ smoothPupilSize' = SmoothPupil(pupils)
             /\ earChart' = UpdateEARChart(ears)
             /\ UNCHANGED circleTrailEnabled

OnResults(r) ==
    IF ~r.ready
    THEN UNCHANGED TrackerVars
    ELSE IF ~r.face
    THEN /\ earChart' = UpdateEARChart(earHistory)
         /\ UNCHANGED << currentPhase, phaseCompleted, leftGazeFrames,
                         rightGazeFrames, blinkCount, blinkFrameCounter,
                         gazeHistory, gazePoint, circleTrailEnabled, trailCtx,
                         lastTrailPoint, flashCount, flashActive,
                         overlayVisible, instructionText, instructionAction,
                         actionOpacity, finalShown, timers, earHistory,
                         pupilSizeHistory, smoothPupilSize >>
    ELSE LET earAvg == (r.earLeft + r.earRight) \div 2
             b == DetectBlink(Blink, earAvg)
             hist == PushGaze(gazeHistory, AvgGaze(r.leftGaze, r.rightGaze))
             g == GazePointOf(hist)
             s == DetectGaze(Self, g)
             avgPupilSize == (r.pupilLeft + r.pupilRight) \div 2
             pupils == Push(pupilSizeHistory, avgPupilSize, maxPupilHistory)
             ears == Push(earHistory, earAvg, maxEarHistory)
         IN  /\ earHistory' = ears
             /\ blinkCount' = b.blinkCount
             /\ blinkFrameCounter' = b.blinkFrameCounter
             /\ gazeHistory' = hist
             /\ gazePoint' = g
             /\ Becomes(s)
             /\ lastTrailPoint' =
                    AddTrailPoint(circleTrailEnabled, s.trailCtx, lastTrailPoint, g)
             /\ pupilSizeHistory' = pupils
             /\ smoothPupilSize' = SmoothPupil(pupils)
             /\ earChart' = UpdateEARChart(ears)
             /\ UNCHANGED circleTrailEnabled

Frame ==
    /\ \E r \in FrameInputs : OnResults(r)
    /\ UNCHANGED << HarnessVars, LoopVars, RatioVars, PageVars >>

(***************************************************************************)
(* Timer callbacks.                                                        *)
(***************************************************************************)
Fire(t, s) == Becomes([s EXCEPT !.timers = @ \ {t}])

NotPage == << blinkCount, blinkFrameCounter, gazeHistory, gazePoint,
              lastTrailPoint, HistoryVars, HarnessVars, LoopVars, RatioVars,
              PageVars >>

\* advanceToPhase, "After 2 seconds, fade in the action text"
FadeInTimer ==
    \E t \in timers :
        /\ t.kind = "fadeIn" /\ CanFire(t)
        /\ Fire(t, [Self EXCEPT !.actionOpacity = 1])
        /\ UNCHANGED << NotPage, circleTrailEnabled >>

\* advanceToPhase, "Hide after 5 (6) seconds total"
HideTimer ==
    \E t \in timers :
        /\ t.kind = "hide" /\ CanFire(t)
        /\ Fire(t, [Self EXCEPT !.overlayVisible = FALSE, !.actionOpacity = 1])
        /\ UNCHANGED << NotPage, circleTrailEnabled >>

\* advanceToPhase, "Enable circle trail AFTER instruction disappears"
TrailTimer ==
    \E t \in timers :
        /\ t.kind = "trailOn" /\ CanFire(t)
        /\ Fire(t, Self)
        /\ circleTrailEnabled' = TRUE
        /\ UNCHANGED NotPage

\* advanceToPhase, "After 16 seconds total ... show final message"
FinalTimer ==
    \E t \in timers :
        /\ t.kind = "final" /\ CanFire(t)
        /\ Fire(t, ShowFinalMessage(Self))
        /\ UNCHANGED << NotPage, circleTrailEnabled >>

\* triggerFlash, "Remove after animation"
FlashOffTimer ==
    \E t \in timers :
        /\ t.kind = "flashOff" /\ CanFire(t)
        /\ Fire(t, [Self EXCEPT !.flashActive = FALSE])
        /\ UNCHANGED << NotPage, circleTrailEnabled >>

\* showFinalMessage, steps 1 to 3: header, body and call-to-action appear.
MessageTimer ==
    \E t \in timers :
        /\ t.kind \in {"header", "body", "cta"} /\ CanFire(t)
        /\ Fire(t, [Self EXCEPT !.finalShown = @ \cup {t.kind}])
        /\ UNCHANGED << NotPage, circleTrailEnabled >>

TimerFires ==
    \/ FadeInTimer
    \/ HideTimer
    \/ TrailTimer
    \/ FinalTimer
    \/ FlashOffTimer
    \/ MessageTimer

Next == Frame \/ TimerFires

Spec == Init /\ [][Next]_vars

(***************************************************************************)
(* The blink detector alone: detectBlink applied to every sequence of at   *)
(* most MaxSamples samples, earInputs recording the samples passed so far. *)
(***************************************************************************)
FeedBlink(ear) ==
    /\ Len(earInputs) < MaxSamples
    /\ LET b == DetectBlink(Blink, ear)
       IN  /\ blinkCount' = b.blinkCount
           /\ blinkFrameCounter' = b.blinkFrameCounter
    /\ earInputs' = Append(earInputs, ear)
    /\ UNCHANGED << currentPhase, phaseCompleted, leftGazeFrames,
                    rightGazeFrames, gazeHistory, gazePoint, circleTrailEnabled,
                    trailCtx, lastTrailPoint, flashCount, flashActive,
                    overlayVisible, instructionText, instructionAction,
                    actionOpacity, finalShown, timers, evalLog, logPhase,
                    HistoryVars, frameLog, LoopVars, RatioVars, PageVars >>

NextBlink == \E ear \in EarSamples : FeedBlink(ear)

SpecBlink == Init /\ [][NextBlink]_vars

(***************************************************************************)
(* The two gaze detectors alone: processEyeTracking's detector calls       *)
(* applied to a smoothed gaze value chosen freely.  evalLog records the    *)
(* values the active phase's detector has evaluated since that phase's     *)
(* sustain counter was last 0 at the start of a frame; a run is followed   *)
(* for at most LogLen evaluations.                                         *)
(***************************************************************************)
ActiveCounter == IF currentPhase = 0 THEN leftGazeFrames ELSE rightGazeFrames

GazeFrame(h) ==
    LET g == [x |-> Round(h * screenWidth, 6000),
              y |-> Round(3000 * screenHeight, 6000), h |-> h, v |-> 3000]
        restart == ActiveCounter = 0 \/ logPhase # currentPhase
    IN  /\ currentPhase \in {0, 1}
        /\ restart \/ Len(evalLog) < LogLen
        /\ Becomes(DetectGaze(Self, g))
        /\ gazePoint' = g
        /\ evalLog' = IF restart THEN << h >> ELSE Append(evalLog, h)
        /\ logPhase' = currentPhase
        /\ UNCHANGED << blinkCount, blinkFrameCounter, gazeHistory,
                        circleTrailEnabled, lastTrailPoint, earInputs,
                        HistoryVars, frameLog, LoopVars, RatioVars, PageVars >>

NextGaze == \E h \in DetectorInputs : GazeFrame(h)

SpecGaze == Init /\ [][NextGaze]_vars

(***************************************************************************)
(* The frame-processing loop: start(), processFrame() and stop(), with the *)
(* promises they await and the animation-frame callbacks they request.     *)
(* Every await is a point where other handlers run, so each method is one  *)
(* action per stretch of code between two awaits.  The callbacks that are  *)
(* pending are counted, not named: the one whose id this.animationId holds *)
(* (animationId = "pending") and the others (otherCallbacks); stop() can   *)
(* cancel only the first.  faceMesh.send() calls onResults and then        *)
(* resolves, or rejects without calling it.  The user follows the          *)
(* instructions, eyes open: looks left, then right once phase 1 is on; up  *)
(* to MaxLoopFrames frames carry a face.                                   *)
(***************************************************************************)
InitLoop ==
    /\ Constructed
    /\ PageLoaded
    /\ overlayElements = TRUE
    /\ preloadedStream \in BOOLEAN
    /\ liveStreams = (IF preloadedStream THEN 1 ELSE 0)
    /\ landmarksIn = NoLandmarks

NotLoop == << TrackerVars, HarnessVars, RatioVars, PageVars >>

\* start() up to its first await: the guard, then the preloaded stream and
\* the call of play(), or the call of getUserMedia().
StartCall ==
    /\ ~isRunning
    /\ startCalls < MaxStarts
    /\ startCalls' = startCalls + 1
    /\ afterStop' = FALSE
    /\ IF preloadedStream
       THEN /\ stream' = TRUE
            /\ preloadedStream' = FALSE
            /\ awaitingPlay' = awaitingPlay + 1
            /\ UNCHANGED awaitingCamera
       ELSE /\ awaitingCamera' = awaitingCamera + 1
            /\ UNCHANGED << stream, preloadedStream, awaitingPlay >>
    /\ UNCHANGED << isRunning, animationId, otherCallbacks, sends, liveStreams,
                    NotLoop >>

\* getUserMedia() resolves: this.stream is the new stream, play() is called.
CameraGranted ==
    /\ awaitingCamera > 0
    /\ awaitingCamera' = awaitingCamera - 1
    /\ stream' = TRUE
    /\ liveStreams' = liveStreams + 1
    /\ awaitingPlay' = awaitingPlay + 1
    /\ UNCHANGED << isRunning, animationId, otherCallbacks, sends,
                    preloadedStream, startCalls, afterStop, NotLoop >>

\* getUserMedia() rejects: the catch block only reports.
CameraDenied ==
    /\ awaitingCamera > 0
    /\ awaitingCamera' = awaitingCamera - 1
    /\ UNCHANGED << isRunning, animationId, otherCallbacks, sends, awaitingPlay,
                    stream, liveStreams, preloadedStream, startCalls, afterStop, NotLoop >>

\* start() that begins a new session: the phase state is reset
PlayResolves_NewSession ==
    /\ awaitingPlay > 0
    /\ awaitingPlay' = awaitingPlay - 1
    /\ isRunning' = TRUE
    /\ sends' = sends + 1
    /\ currentPhase' = 0
    /\ phaseCompleted' = [i \in 0..3 |-> FALSE]
    /\ leftGazeFrames' = 0
    /\ rightGazeFrames' = 0
    /\ UNCHANGED << animationId, otherCallbacks, awaitingCamera, stream,
                    liveStreams, preloadedStream, startCalls, afterStop, blinkCount,
                    blinkFrameCounter, gazeHistory, gazePoint,
                    circleTrailEnabled, trailCtx, lastTrailPoint, flashCount,
                    flashActive, overlayVisible, instructionText,
                    instructionAction, actionOpacity, finalShown, timers,
                    HistoryVars, HarnessVars, RatioVars, PageVars >>

\* play() resolves: isRunning is set and processFrame() runs up to its
\* await, which starts a send.
PlayResolves ==
    /\ awaitingPlay > 0
    /\ awaitingPlay' = awaitingPlay - 1
    /\ isRunning' = TRUE
    /\ sends' = sends + 1
    /\ UNCHANGED << animationId, otherCallbacks, awaitingCamera, stream,
                    liveStreams, preloadedStream, startCalls, afterStop, NotLoop >>

\* play() rejects: the catch block only reports.
PlayRejects ==
    /\ awaitingPlay > 0
    /\ awaitingPlay' = awaitingPlay - 1
    /\ UNCHANGED << isRunning, animationId, otherCallbacks, sends,
                    awaitingCamera, stream, liveStreams, preloadedStream,
                    startCalls, afterStop, NotLoop >>

\* requestAnimationFrame(() => this.processFrame()), assigned to
\* this.animationId: the callback it held, if still pending, stays pending.
RequestFrame ==
    /\ animationId' = "pending"
    /\ otherCallbacks' = IF animationId = "pending"
                         THEN otherCallbacks + 1 ELSE otherCallbacks

\* Face frames of a user who follows the instructions.
FollowingFrames ==
    { r \in OpenEyeFrames :
        r.leftGaze.h = (IF currentPhase = 1 THEN 1200 ELSE 4800) }

\* faceMesh.send() delivers results r to onResults and resolves;
\* processFrame() goes on to request the next frame.
SendCompletes ==
    /\ sends > 0
    /\ \E r \in FollowingFrames \cup IdleFrames :
          /\ r.ready /\ r.face => Len(earHistory) < MaxLoopFrames
          /\ OnResults(r)
    /\ sends' = sends - 1
    /\ RequestFrame
    /\ UNCHANGED << isRunning, awaitingCamera, awaitingPlay, stream,
                    liveStreams, preloadedStream, startCalls, afterStop,
                    HarnessVars, RatioVars, PageVars >>

\* faceMesh.send() rejects: processFrame() logs the error and goes on to
\* request the next frame.
SendFails ==
    /\ sends > 0
    /\ sends' = sends - 1
    /\ RequestFrame
    /\ UNCHANGED << isRunning, awaitingCamera, awaitingPlay, stream,
                    liveStreams, preloadedStream, startCalls, afterStop, NotLoop >>

\* A pending animation-frame callback runs processFrame() up to its await:
\* it returns at once when isRunning is false, and starts a send otherwise.
FrameCallback ==
    /\ \/ /\ animationId = "pending"
          /\ animationId' = "run"
          /\ UNCHANGED otherCallbacks
       \/ /\ otherCallbacks > 0
          /\ otherCallbacks' = otherCallbacks - 1
          /\ UNCHANGED animationId
    /\ sends' = IF isRunning THEN sends + 1 ELSE sends
    /\ UNCHANGED << isRunning, awaitingCamera, awaitingPlay, stream,
                    liveStreams, preloadedStream, startCalls, afterStop, NotLoop >>

\* stop() that discards the session: histories and counters are cleared
Stop_DiscardsSession ==
    /\ isRunning
    /\ isRunning' = FALSE
    /\ afterStop' = TRUE
    /\ animationId' = "null"
    /\ stream' = FALSE
    /\ liveStreams' = IF stream THEN liveStreams - 1 ELSE liveStreams
    /\ earHistory' = << >>
    /\ gazeHistory' = << >>
    /\ pupilSizeHistory' = << >>
    /\ blinkCount' = 0
    /\ blinkFrameCounter' = 0
    /\ leftGazeFrames' = 0
    /\ rightGazeFrames' = 0
    /\ UNCHANGED << otherCallbacks, sends, awaitingCamera, awaitingPlay,
                    preloadedStream, startCalls, currentPhase, phaseCompleted,
                    gazePoint, circleTrailEnabled, trailCtx, lastTrailPoint,
                    flashCount, flashActive, overlayVisible, instructionText,
                    instructionAction, actionOpacity, finalShown, timers,
                    smoothPupilSize, earChart, HarnessVars, RatioVars,
                    PageVars >>

\* stop()
Stop ==
    /\ isRunning
    /\ isRunning' = FALSE
    /\ afterStop' = TRUE
    /\ animationId' = "null"
    /\ stream' = FALSE
    /\ liveStreams' = IF stream THEN liveStreams - 1 ELSE liveStreams
    /\ UNCHANGED << otherCallbacks, sends, awaitingCamera, awaitingPlay,
                    preloadedStream, startCalls, NotLoop >>

NextLoop ==
    \/ StartCall
    \/ CameraGranted
    \/ CameraDenied
    \/ PlayResolves
    \/ PlayRejects
    \/ SendCompletes
    \/ SendFails
    \/ FrameCallback
    \/ Stop
    \/ TimerFires

SpecLoop == InitLoop /\ [][NextLoop]_vars

(***************************************************************************)
(* The detectors at their thresholds: the detector harness with inputs     *)
(* that equal a threshold, a run followed for EdgeLen evaluations.         *)
(***************************************************************************)
EdgeFrame(h) ==
    /\ GazeFrame(h)
    /\ Len(evalLog') <= EdgeLen

NextEdge == \E h \in EdgeInputs : EdgeFrame(h)

SpecEdge == Init /\ [][NextEdge]_vars

(***************************************************************************)
(* calculateGazeRatio alone, applied once to six eye landmarks and four    *)
(* iris landmarks chosen freely.                                           *)
(***************************************************************************)
LandmarkInputs ==
    [eye : [1..6 -> EyePoints], iris : [1..4 -> IrisPoints]]

InitRatio ==
    /\ Constructed
    /\ PageLoaded
    /\ overlayElements = TRUE
    /\ preloadedStream = FALSE
    /\ liveStreams = 0
    /\ landmarksIn \in LandmarkInputs

CalcRatio ==
    /\ ratioOut = NoRatio
    /\ ratioOut' = CalculateGazeRatio(landmarksIn.iris, landmarksIn.eye,
                                      canvasWidth, canvasHeight)
    /\ UNCHANGED << TrackerVars, HarnessVars, LoopVars, landmarksIn, PageVars >>

NextRatio == CalcRatio

SpecRatio == InitRatio /\ [][NextRatio]_vars

(***************************************************************************)
(* Long runs of the whole frame handler.  The first FreeFrames face        *)
(* frames are chosen freely among HistFrames, the later ones repeat them   *)
(* in the same order, up to MaxHistFrames face frames; frames without a    *)
(* face come in between at will.  frameLog records the face frames.        *)
(***************************************************************************)
\* Nine kinds of frame.  Both eyes closed (EAR 0.12) with small pupils, one
\* eye closed (average EAR 0.21, exactly the threshold; average pupil 10)
\* or both open with large pupils; and both eyes looking right, one right
\* and one left (average gaze 0.5) or both left.
HistFrames ==
    { r \in FaceFrames :
        /\ r.earLeft <= r.earRight
        /\ r.leftGaze.h <= r.rightGaze.h
        /\ r.pupilLeft = (IF r.earLeft = 12 THEN 8 ELSE 12)
        /\ r.pupilRight = (IF r.earRight = 12 THEN 8 ELSE 12) }

HistFrame(r) ==
    LET n == Len(frameLog)
    IN  /\ r.ready /\ r.face => n < MaxHistFrames
        /\ r.ready /\ r.face /\ n >= FreeFrames => r = frameLog[n - FreeFrames + 1]
        /\ OnResults(r)
        /\ frameLog' = IF r.ready /\ r.face THEN Append(frameLog, r) ELSE frameLog
        /\ UNCHANGED << earInputs, evalLog, logPhase, LoopVars, RatioVars, PageVars >>

NextHist == \E r \in HistFrames \cup IdleFrames : HistFrame(r)

SpecHist == Init /\ [][NextHist]_vars

(***************************************************************************)
(* Every call of onResults, with or without a face: the first MaxCalls     *)
(* results FaceMesh delivers, each recorded in frameLog.                   *)
(***************************************************************************)
MaxCalls == 4

ResultsCall(r) ==
    /\ Len(frameLog) < MaxCalls
    /\ OnResults(r)
    /\ frameLog' = Append(frameLog, r)
    /\ UNCHANGED << earInputs, evalLog, logPhase, LoopVars, RatioVars, PageVars >>

NextCalls == \E r \in HistFrames \cup IdleFrames : ResultsCall(r)

SpecCalls == Init /\ [][NextCalls]_vars

(***************************************************************************)
(* The page: startExperience() and the seven timers it registers once      *)
(* tracker.start() has resolved, next to the frames of a user who follows  *)
(* the instructions and the timers of the phase machinery.  The timers of  *)
(* startExperience form batch 0: they are registered before any frame is   *)
(* evaluated.                                                              *)
(***************************************************************************)
StartTimers ==
    { Timer("appContainer", 0, 300, 1),
      Timer("dashboard", 0, 1000, 2),
      Timer("gazePointer", 0, 1500, 3),
      Timer("showIntro", 0, 6000, 4),
      Timer("hideIntro", 0, 9000, 5),
      Timer("showLookLeft", 0, 9500, 6),
      Timer("hideLookLeft", 0, 13500, 7) }

\* What the callbacks of startExperience leave alone besides the overlay.
NotOverlay == << blinkCount, blinkFrameCounter, gazeHistory, gazePoint,
                 lastTrailPoint, circleTrailEnabled, HistoryVars, HarnessVars,
                 LoopVars, RatioVars >>

\* startExperience(): the guard, the landing screen and, after the await of
\* tracker.start(), the timers.
StartExperience ==
    /\ ~experienceStarted
    /\ experienceStarted' = TRUE
    /\ pageShown' = pageShown \cup {"landingFadeOut"}
    /\ Becomes([Self EXCEPT !.timers = @ \cup StartTimers])
    /\ UNCHANGED << NotOverlay, overlayElements >>

\* startExperience, "Fade in app container", "Show dashboard", "Show gaze
\* pointer"
RevealTimer ==
    \E t \in timers :
        /\ t.kind \in {"appContainer", "dashboard", "gazePointer"}
        /\ CanFire(t)
        /\ Fire(t, Self)
        /\ pageShown' = pageShown \cup {t.kind}
        /\ UNCHANGED << NotOverlay, experienceStarted, overlayElements >>

\* startExperience, "Show \"Let's start the exercises\" after 6 seconds"
IntroTimer ==
    \E t \in timers :
        /\ t.kind = "showIntro" /\ CanFire(t)
        /\ Fire(t, IF overlayElements
                   THEN [Self EXCEPT
                            !.instructionText = "LET'S START THE EXERCISES",
                            !.instructionAction = "",
                            !.overlayVisible = TRUE]
                   ELSE Self)
        /\ UNCHANGED << NotOverlay, PageVars >>

\* startExperience, "Show first instruction \"LOOK LEFT\" after 9.5 seconds"
LookLeftTimer ==
    \E t \in timers :
        /\ t.kind = "showLookLeft" /\ CanFire(t)
        /\ Fire(t, IF overlayElements
                   THEN [Self EXCEPT !.instructionText = "LOOK LEFT",
                                     !.instructionAction = "",
                                     !.overlayVisible = TRUE]
                   ELSE Self)
        /\ UNCHANGED << NotOverlay, PageVars >>

\* startExperience, "Hide intro message", "Hide first instruction"
IntroHideTimer ==
    \E t \in timers :
        /\ t.kind \in {"hideIntro", "hideLookLeft"} /\ CanFire(t)
        /\ Fire(t, [Self EXCEPT !.overlayVisible = FALSE])
        /\ UNCHANGED << NotOverlay, PageVars >>

PageTimerFires ==
    \/ RevealTimer
    \/ IntroTimer
    \/ LookLeftTimer
    \/ IntroHideTimer

\* A frame with a face, once tracking has started.
PageFrame ==
    /\ experienceStarted
    /\ \E r \in FollowingFrames : OnResults(r)
    /\ UNCHANGED << HarnessVars, LoopVars, RatioVars, PageVars >>

NextPage ==
    \/ StartExperience
    \/ PageFrame
    \/ TimerFires
    \/ PageTimerFires

SpecPage == Init /\ [][NextPage]_vars

(***************************************************************************)
(* The tracker on a page that has the elements of the instruction overlay  *)
(* or lacks them, fed the frames of a user who follows the instructions.   *)
(* The browser runs every registered timer callback once its delay has     *)
(* passed: weak fairness of the timers.                                    *)
(***************************************************************************)
InitAnyPage ==
    /\ Constructed
    /\ PageLoaded
    /\ overlayElements \in Pages
    /\ preloadedStream = FALSE
    /\ liveStreams = 0
    /\ landmarksIn = NoLandmarks

FollowFrame ==
    /\ \E r \in FollowingFrames : OnResults(r)
    /\ UNCHANGED << HarnessVars, LoopVars, RatioVars, PageVars >>

NextAnyPage == FollowFrame \/ TimerFires

SpecAnyPage == InitAnyPage /\ [][NextAnyPage]_vars /\ WF_vars(TimerFires)

(***************************************************************************)
(* Vocabulary of the properties.                                           *)
(***************************************************************************)
\* Phase p's gaze predicate on a smoothed horizontal ratio h.
Qualifies(p, h) == IF p = 0 THEN h > leftGazeThreshold ELSE h < rightGazeThreshold

\* Phase p's sustain counter and required count.
Counter(p) == IF p = 0 THEN leftGazeFrames ELSE rightGazeFrames
Required(p) == IF p = 0 THEN leftGazeRequired ELSE rightGazeRequired

\* A step is the frame that satisfies the active phase p: a frame evaluation
\* whose smoothed gaze qualifies while p's counter is one short of required.
Satisfies(p) ==
    /\ currentPhase = p
    /\ Counter(p) = Required(p) - 1
    /\ Qualifies(p, gazePoint'.h)
    /\ Frame

\* The four effects of satisfying phase p, all together.
AllEffects(p) ==
    /\ phaseCompleted'[p]
    /\ flashCount' = flashCount + 1
    /\ Counter(p)' = 0
    /\ currentPhase' = p + 1

\* Some effect of satisfying phase p shows in the step.
SomeEffect(p) ==
    \/ ~phaseCompleted[p] /\ phaseCompleted'[p]
    \/ currentPhase = p /\ flashCount' # flashCount
    \/ currentPhase = p /\ currentPhase' # p

\* C1: currentPhase stays in 0..3 and every change of it is from k to k+1:
\* it never decreases and never skips a phase.
C1_PhaseOrder ==
    [][/\ currentPhase \in 0..3
       /\ currentPhase' \in 0..3
       /\ currentPhase' # currentPhase => currentPhase' = currentPhase + 1]_vars

C1_Witness == currentPhase = 3 /\ phaseCompleted[0] /\ phaseCompleted[1]

\* C4: in the frame that satisfies phase p (0 or 1) the completion flag is
\* set, exactly one flash is triggered, p's counter is 0 and currentPhase is
\* p+1 when the frame ends; and no step shows one of these effects without
\* the others.
C4_EffectsTogether ==
    [][\A p \in {0, 1} :
           /\ Satisfies(p) => AllEffects(p)
           /\ SomeEffect(p) => Satisfies(p) /\ AllEffects(p)]_vars

C4_Witness ==
    /\ currentPhase = 2 /\ phaseCompleted[1] /\ flashCount = 2
    /\ rightGazeFrames = 0 /\ Qualifies(1, gazePoint.h)

\* C5: once phaseCompleted[p] is true (p in {0,1}), a frame whose smoothed
\* gaze satisfies p's predicate triggers no flash and leaves p's counter,
\* the completion flags and currentPhase as they were.
C5_CompletedPhaseInert ==
    [][\A p \in {0, 1} :
           (phaseCompleted[p] /\ Qualifies(p, gazePoint'.h) /\ Frame)
               => /\ flashCount' = flashCount
                  /\ Counter(p)' = Counter(p)
                  /\ phaseCompleted' = phaseCompleted
                  /\ currentPhase' = currentPhase]_vars

\* A frame that qualifies for phase 1 was evaluated after phase 1 completed:
\* the trail, enabled six seconds after the completion, has drawn its gaze.
C5_Witness ==
    /\ phaseCompleted[1] /\ Qualifies(1, gazePoint.h)
    /\ lastTrailPoint = [x |-> gazePoint.x, y |-> gazePoint.y]

\* C6: once currentPhase is 3, no step changes currentPhase, a sustain
\* counter or a completion flag, and no flash is triggered.
C6_DoneIsTerminal ==
    [][currentPhase = 3
           => /\ currentPhase' = 3
              /\ leftGazeFrames' = leftGazeFrames
              /\ rightGazeFrames' = rightGazeFrames
              /\ phaseCompleted' = phaseCompleted
              /\ flashCount' = flashCount]_vars

\* Done, with every later timer fired and the latest frame looking right.
C6_Witness ==
    /\ currentPhase = 3 /\ "cta" \in finalShown /\ timers = {}
    /\ Qualifies(1, gazePoint.h)

\* C7: a frame leaves the counter and the completion flag of every phase
\* other than the one current at its start unchanged, also when that other
\* phase's predicate holds for the frame's smoothed gaze.
C7_OtherPhasesInert ==
    [][\A p \in 0..3 :
           p # currentPhase
               => \/ /\ phaseCompleted'[p] = phaseCompleted[p]
                     /\ p \in {0, 1} => Counter(p)' = Counter(p)
                  \/ ~Frame]_vars

\* Phase 0 is active and the latest frame's gaze satisfied phase 1's
\* predicate, after an earlier frame had moved the left counter.
C7_Witness ==
    /\ currentPhase = 0 /\ Qualifies(1, gazePoint.h)
    /\ leftGazeFrames > 0 /\ rightGazeFrames = 0

\* C8 as stated: every change of currentPhase happens in a frame in which
\* the active phase's counter reaches its required count on the smoothed
\* gaze, with exactly one flash.
C8_Original ==
    [][currentPhase' # currentPhase
           => /\ currentPhase \in {0, 1}
              /\ Satisfies(currentPhase)
              /\ flashCount' = flashCount + 1]_vars

\* C8 amended: currentPhase leaves phase 0 and phase 1 only in a frame in
\* which that phase's counter reaches its required count on the smoothed
\* gaze (the mean of gazeHistory), with exactly one flash, and leaves each
\* at most once; it leaves phase 2 only when the final-message timer fires,
\* to 3, with no flash and no counter involved.
C8_PhaseChanges ==
    [][currentPhase' # currentPhase
           => \/ /\ currentPhase \in {0, 1}
                 /\ ~phaseCompleted[currentPhase]
                 /\ Satisfies(currentPhase)
                 /\ gazePoint'.h * Len(gazeHistory') = SumH(gazeHistory')
                 /\ flashCount' = flashCount + 1
                 /\ currentPhase' = currentPhase + 1
              \/ /\ currentPhase = 2
                 /\ currentPhase' = 3
                 /\ FinalTimer
                 /\ flashCount' = flashCount]_vars

C8_Witness == currentPhase = 3 /\ flashCount = 2 /\ finalShown = {"finalMessage"}

(***************************************************************************)
(* Runs of below-threshold samples in earInputs.                           *)
(***************************************************************************)
BelowAt(i) == earInputs[i] < EAR_THRESHOLD

\* <<i, j>> is a maximal run of consecutive samples below the threshold.
MaximalRuns ==
    { r \in (1..Len(earInputs)) \X (1..Len(earInputs)) :
        /\ r[1] <= r[2]
        /\ \A k \in r[1]..r[2] : BelowAt(k)
        /\ r[1] = 1 \/ ~BelowAt(r[1] - 1)
        /\ r[2] = Len(earInputs) \/ ~BelowAt(r[2] + 1) }

LongRuns == { r \in MaximalRuns : r[2] - r[1] + 1 >= BLINK_CONSEC_FRAMES }

\* A run is closed when a sample not below the threshold follows it.
ClosedLongRuns == { r \in LongRuns : r[2] < Len(earInputs) }

\* C2 as stated: after any sequence of samples, blinkCount is the number of
\* maximal below-threshold runs of length at least 2.
C2_Original == blinkCount = Cardinality(LongRuns)

\* C2 amended: after any sequence of samples, blinkCount is the number of
\* maximal below-threshold runs of length at least 2 that a sample not below
\* the threshold has followed; a run still open at the end of the sequence
\* is not counted, whatever its length (blinkFrameCounter holds its length).
C2_BlinkCount ==
    /\ blinkCount = Cardinality(ClosedLongRuns)
    /\ blinkFrameCounter =
           Cardinality({ i \in 1..Len(earInputs) :
                           \A k \in i..Len(earInputs) : BelowAt(k) })

\* Two closed runs, one of length 1 and one of length 2, then an open run of
\* length 2: one blink counted.
C2_Witness == earInputs = << 10, 30, 10, 10, 21, 10, 10 >> /\ blinkCount = 1

(***************************************************************************)
(* Runs of evaluations in evalLog.                                         *)
(***************************************************************************)
LogQualifies(i) == Qualifies(logPhase, evalLog[i])

\* The latest frame satisfied phase logPhase: evalLog holds the whole run of
\* evaluations that led to it, from counter 0.
Triggered == evalLog # << >> /\ currentPhase = logPhase + 1

Last(n) == { i \in 1..Len(evalLog) : i > Len(evalLog) - n }

\* C3: from counter 0, while every frame's smoothed gaze qualifies for the
\* active phase p (0 or 1), the phase is still p after each of the first 9
\* frames, with the counter at the number of frames, and is p+1 after the
\* 10th.
C3_TenFrames ==
    (evalLog # << >> /\ \A i \in 1..Len(evalLog) : LogQualifies(i))
        => /\ Len(evalLog) <= Required(logPhase)
           /\ Len(evalLog) < Required(logPhase)
                  => currentPhase = logPhase /\ Counter(logPhase) = Len(evalLog)
           /\ Len(evalLog) = Required(logPhase)
                  => currentPhase = logPhase + 1 /\ phaseCompleted[logPhase]

C3_Witness ==
    /\ logPhase = 1 /\ Len(evalLog) = 10 /\ currentPhase = 2
    /\ \A i \in 1..Len(evalLog) : evalLog[i] < rightGazeThreshold

\* C9 as stated: when phase 0 or 1 becomes satisfied, its predicate held on
\* each of the 10 most recent evaluations of that phase.
C9_Original ==
    Triggered => Len(evalLog) >= 10 /\ \A i \in Last(10) : LogQualifies(i)

\* C9 amended: when phase 0 or 1 becomes satisfied, that phase has been
\* evaluated at least 10 times, its predicate held on each of the 3 most
\* recent evaluations and on at least 7 of the 10 most recent.
C9_RecentEvaluations ==
    Triggered
        => /\ Len(evalLog) >= 10
           /\ \A i \in Last(3) : LogQualifies(i)
           /\ Cardinality({ i \in Last(10) : LogQualifies(i) }) >= 7

\* Phase 1 satisfied with exactly 7 qualifying among the last 10 evaluations.
C9_Witness ==
    /\ Triggered /\ logPhase = 1
    /\ Cardinality({ i \in Last(10) : LogQualifies(i) }) = 7

\* The frames of C10: 9 qualifying, 1 non-qualifying, then qualifying.
DropoutRun(n) == [i \in 1..n |-> IF i = 10 THEN 1800 ELSE 4200]

\* C10: from counter 0 in phase 0, after 9 qualifying frames, 1 that does
\* not qualify and then qualifying frames, the counter is 7 after the 10th
\* frame, the phase is still 0 after frames 10, 11 and 12 and is 1 after
\* the 13th, and the counter is not 0 after any of the frames 1 to 12.
C10_Dropout ==
    \A n \in 1..13 :
        (logPhase = 0 /\ evalLog = DropoutRun(n))
            => /\ n <= 9 => currentPhase = 0 /\ leftGazeFrames = n
               /\ n = 10 => currentPhase = 0 /\ leftGazeFrames = 7
               /\ n \in {11, 12} => currentPhase = 0 /\ leftGazeFrames = n - 3
               /\ n = 13 => currentPhase = 1 /\ leftGazeFrames = 0
                               /\ phaseCompleted[0]

C10_Witness == logPhase = 0 /\ evalLog = DropoutRun(13) /\ currentPhase = 1

(***************************************************************************)
(* The histories and the smoothing.                                        *)
(***************************************************************************)
\* The values processEyeTracking pushes for a face frame r.
PushedEar(r) == (r.earLeft + r.earRight) \div 2
PushedGaze(r) == AvgGaze(r.leftGaze, r.rightGaze)
PushedPupil(r) == (r.pupilLeft + r.pupilRight) \div 2

\* The last Min(n, c) face frames of frameLog, oldest first.
LastFrames(c) ==
    LET n == Len(frameLog)
    IN  SubSeq(frameLog, n - Min(n, c) + 1, n)

\* C11: detectBlink reports a blink (returns true, and increments
\* blinkCount) on a sample exactly when that sample is not below
\* EAR_THRESHOLD and blinkFrameCounter was at least BLINK_CONSEC_FRAMES just
\* before; so never on a below-threshold sample.  For the samples 0.3, 0.3,
\* 0.1, 0.1, 0.1, 0.3, 0.3 the one blink is counted on the sixth sample.
C11_ReportsOnReopen ==
    [][LET ear == earInputs'[Len(earInputs')]
           reports == ear >= EAR_THRESHOLD
                          /\ blinkFrameCounter >= BLINK_CONSEC_FRAMES
       IN  /\ DetectBlink(Blink, ear).isBlinking <=> reports
           /\ blinkCount' = IF reports THEN blinkCount + 1 ELSE blinkCount
           /\ earInputs' = << 30, 30, 10, 10, 10 >> => blinkCount' = 0
           /\ earInputs' = << 30, 30, 10, 10, 10, 30 >> => blinkCount' = 1
           /\ earInputs' = << 30, 30, 10, 10, 10, 30, 30 >> => blinkCount' = 1
      ]_vars

C11_Witness ==
    /\ earInputs = << 30, 30, 10, 10, 10, 30, 30 >>
    /\ blinkCount = 1

\* C14: after n face frames each history holds the last Min(n, C) pushed
\* values in push order, with C = 100 for the EAR history, 5 for the gaze
\* history and 30 for the pupil history.
C14_Histories ==
    /\ earHistory = [i \in 1..Min(Len(frameLog), maxEarHistory) |->
                        PushedEar(LastFrames(maxEarHistory)[i])]
    /\ gazeHistory = [i \in 1..Min(Len(frameLog), maxGazeHistory) |->
                         PushedGaze(LastFrames(maxGazeHistory)[i])]
    /\ pupilSizeHistory = [i \in 1..Min(Len(frameLog), maxPupilHistory) |->
                              PushedPupil(LastFrames(maxPupilHistory)[i])]

\* More than 100 face frames went by, not all alike.
C14_Witness ==
    /\ Len(frameLog) > maxEarHistory
    /\ frameLog[1] # frameLog[2]
    /\ Len(earHistory) = maxEarHistory
    /\ Len(pupilSizeHistory) = maxPupilHistory
    /\ Len(gazeHistory) = maxGazeHistory

RECURSIVE SumGazeH(_)
SumGazeH(fs) == IF fs = << >> THEN 0 ELSE PushedGaze(Head(fs)).h + SumGazeH(Tail(fs))

RECURSIVE SumGazeV(_)
SumGazeV(fs) == IF fs = << >> THEN 0 ELSE PushedGaze(Head(fs)).v + SumGazeV(Tail(fs))

RECURSIVE SumPupil(_)
SumPupil(fs) == IF fs = << >> THEN 0 ELSE PushedPupil(Head(fs)) + SumPupil(Tail(fs))

\* C15: on the n-th face frame the smoothed gaze (h, v) is the sum of the
\* last Min(n, 5) two-eye averages divided by Min(n, 5), and the smoothed
\* pupil size is the sum of the last Min(n, 30) averages divided by
\* Min(n, 30): the divisor is the number of entries held, not the capacity.
C15_SmoothingDivisor ==
    LET n == Len(frameLog)
    IN  n > 0 =>
          /\ gazePoint.h * Min(n, maxGazeHistory) = SumGazeH(LastFrames(maxGazeHistory))
          /\ gazePoint.v * Min(n, maxGazeHistory) = SumGazeV(LastFrames(maxGazeHistory))
          /\ smoothPupilSize.count > 0
          /\ smoothPupilSize.sum * Min(n, maxPupilHistory)
                 = SumPupil(LastFrames(maxPupilHistory)) * smoothPupilSize.count

\* Two frames in: the mean of two values, which a division by 5 or by 30
\* would not give.
C15_Witness ==
    /\ Len(frameLog) = 2
    /\ gazePoint.h = 3900
    /\ smoothPupilSize = [sum |-> 22, count |-> 2]

\* C18: a frame leaves blinkCount as it was or adds exactly 1 to it, so it
\* never decreases.
C18_BlinkCountSteps ==
    [][blinkCount' = blinkCount \/ blinkCount' = blinkCount + 1]_vars

\* A frame has just counted the second blink of the run.
C18_Witness ==
    /\ Len(frameLog) > 0
    /\ blinkCount = 2
    /\ blinkFrameCounter = 0
    /\ PushedEar(frameLog[Len(frameLog)]) >= EAR_THRESHOLD
    /\ PushedEar(frameLog[Len(frameLog) - 1]) < EAR_THRESHOLD

\* Phase p's threshold.
Threshold(p) == IF p = 0 THEN leftGazeThreshold ELSE rightGazeThreshold

\* C16: a frame whose smoothed h equals the active phase's threshold does
\* not qualify: that phase's counter is not incremented, it decays by 2
\* down to 0, and the phase does not change.
C16_ThresholdIsOutside ==
    [][\A p \in {0, 1} :
          (currentPhase = p /\ gazePoint'.h = Threshold(p))
              => /\ Counter(p)' = Max(0, Counter(p) - 2)
                 /\ currentPhase' = p
                 /\ phaseCompleted' = phaseCompleted
      ]_vars

\* In phase 1, three frames looking right and then one at exactly 0.35.
C16_Witness ==
    /\ currentPhase = 1
    /\ logPhase = 1
    /\ evalLog = << 1800, 1800, 1800, 2100 >>
    /\ rightGazeFrames = 1

(***************************************************************************)
(* calculateGazeRatio.                                                     *)
(***************************************************************************)
\* The eye bounding box and the iris centre of landmarksIn, in units of
\* 1/CoordUnit of the image side; the iris centre times 4.
BoxMinX == SetMin({ landmarksIn.eye[i].x : i \in 1..6 })
BoxMaxX == SetMax({ landmarksIn.eye[i].x : i \in 1..6 })
BoxMinY == SetMin({ landmarksIn.eye[i].y : i \in 1..6 })
BoxMaxY == SetMax({ landmarksIn.eye[i].y : i \in 1..6 })
Iris4X == SumX(landmarksIn.iris)
Iris4Y == SumY(landmarksIn.iris)

\* C17: calculateGazeRatio returns (0.5, 0.5) whenever the eye bounding box
\* has width <= 0 or height <= 0, and otherwise the ratios
\* (irisCenter.x - minX) / eyeWidth and (irisCenter.y - minY) / eyeHeight,
\* not clamped to 0..1; it returns a result for every six eye points and
\* four iris points.
C17_GazeRatio ==
    ratioOut # NoRatio =>
        IF BoxMaxX - BoxMinX <= 0 \/ BoxMaxY - BoxMinY <= 0
        THEN ratioOut = [h |-> 3000, v |-> 3000]
        ELSE /\ ratioOut.h * 4 * (BoxMaxX - BoxMinX) = 6000 * (Iris4X - 4 * BoxMinX)
             /\ ratioOut.v * 4 * (BoxMaxY - BoxMinY) = 6000 * (Iris4Y - 4 * BoxMinY)

\* A proper box with the iris centre on its left, outside it: h is -0.25.
C17_Witness ==
    /\ ratioOut # NoRatio
    /\ BoxMaxX - BoxMinX > 0 /\ BoxMaxY - BoxMinY > 0
    /\ ratioOut = [h |-> -1500, v |-> 3000]

(***************************************************************************)
(* start(), stop() and the frame-processing loop.                          *)
(***************************************************************************)
\* The session as the constructor leaves it.
Fresh ==
    /\ earHistory = << >> /\ gazeHistory = << >> /\ pupilSizeHistory = << >>
    /\ blinkCount = 0 /\ blinkFrameCounter = 0
    /\ currentPhase = 0 /\ phaseCompleted = [i \in 0..3 |-> FALSE]
    /\ leftGazeFrames = 0 /\ rightGazeFrames = 0

\* Pending processFrame callbacks, and the loops that are live: each is
\* waiting for its send or for its callback.
PendingCallbacks == otherCallbacks + (IF animationId = "pending" THEN 1 ELSE 0)
LiveLoops == sends + PendingCallbacks

\* A start() that followed a stop() has completed and nothing else is
\* under way: the tracker runs one loop, whose first send is in flight.
Restarted ==
    /\ isRunning /\ startCalls = 2
    /\ awaitingCamera = 0 /\ awaitingPlay = 0
    /\ animationId = "null" /\ otherCallbacks = 0 /\ sends = 1

\* C12 as stated: when tracking starts running, after a stop() as well as
\* the first time, the session state is fresh: empty histories,
\* blinkCount, blinkFrameCounter and the sustain counters 0, currentPhase
\* 0, every completion flag false.  (Frames are processed only once
\* tracking has run, so a state that is not fresh is met only at a start
\* that follows a stop.)
C12_Original ==
    [][(~isRunning /\ isRunning') => Fresh']_vars

\* C12 amended: neither stop() nor start() changes the session state: the
\* histories, blinkCount, blinkFrameCounter, the sustain counters,
\* currentPhase and the completion flags are after the call what they were
\* before it, so tracking resumes on the state the earlier frames left.
C12_SessionKept ==
    [][(isRunning' # isRunning \/ startCalls' # startCalls
            \/ awaitingCamera' # awaitingCamera \/ awaitingPlay' # awaitingPlay)
           => UNCHANGED TrackerVars]_vars

\* Restarted after phase 0 was completed: the ten frames are still there.
C12_Witness ==
    /\ Restarted
    /\ phaseCompleted[0]
    /\ currentPhase = 1
    /\ Len(earHistory) = 10

\* C13: a completion flag that is true stays true, whatever frames,
\* timers, stop() and start() calls follow.
C13_FlagsStay ==
    [][\A i \in 0..3 : phaseCompleted[i] => phaseCompleted'[i]]_vars

\* Restarted after both gestures were completed.
C13_Witness ==
    /\ Restarted
    /\ phaseCompleted[0] /\ phaseCompleted[1]
    /\ currentPhase = 3

\* C20 as stated: at most one frame-processing loop is live, so there is
\* never more than one send in flight or more than one pending
\* processFrame callback.
C20_Original == LiveLoops <= 1

(***************************************************************************)
(* The circle trail.                                                       *)
(***************************************************************************)
\* C19 as stated: a gaze point is forwarded to the trail only by a frame
\* processed while currentPhase is 2; none in phase 0 or 1, none in phase 3.
C19_Original ==
    [][lastTrailPoint' # lastTrailPoint => currentPhase = 2]_vars

\* C19 amended: a gaze point is forwarded to the trail only by a frame
\* processed while the trail is enabled, which it is from the trail timer
\* of phase 2 on, with currentPhase 2 or 3: none in phase 0 or 1, none in
\* phase 2 before that timer, and the forwarding goes on in phase 3.
C19_TrailPhases ==
    [][/\ circleTrailEnabled' => currentPhase' \in {2, 3}
       /\ lastTrailPoint' # lastTrailPoint
              => /\ circleTrailEnabled
                 /\ currentPhase \in {2, 3}
                 /\ currentPhase' = currentPhase
                 /\ lastTrailPoint' = [x |-> gazePoint'.x, y |-> gazePoint'.y]
      ]_vars

\* After the final message, a frame moved the trail to a new gaze point.
C19_Witness ==
    /\ currentPhase = 3
    /\ "cta" \in finalShown
    /\ gazeHistory[maxGazeHistory].h = 1200
    /\ gazePoint.h = 1200
    /\ lastTrailPoint = [x |-> gazePoint.x, y |-> gazePoint.y]

(***************************************************************************)
(* The sustain counters and the completion flags.                          *)
(***************************************************************************)
\* C21: a frame that does not qualify for the active phase (0 or 1) takes
\* that phase's counter c to max(0, c - 2): down by exactly 2 when c >= 2,
\* to 0 when c is 1, still 0 when c is 0, and never below 0.
C21_DecayByTwo ==
    [][\A p \in {0, 1} :
          (currentPhase = p /\ ~Qualifies(p, gazePoint'.h))
              => /\ Counter(p)' = Max(0, Counter(p) - 2)
                 /\ Counter(p) >= 2 => Counter(p)' = Counter(p) - 2
                 /\ Counter(p) = 1 => Counter(p)' = 0
                 /\ Counter(p) = 0 => Counter(p)' = 0
                 /\ Counter(p)' >= 0
      ]_vars

\* In phase 1, one frame looking right and then one looking left: the
\* counter went from 1 to 0.
C21_Witness ==
    /\ currentPhase = 1
    /\ logPhase = 1
    /\ evalLog = << 1800, 4200 >>
    /\ rightGazeFrames = 0

\* C28: while phase p (0 or 1) is active, whatever its counter, a run of 10
\* qualifying frames in a row completes the phase by its 10th frame at the
\* latest: the phase is never still active after 10 qualifying frames in a
\* row.
C28_TenInARow ==
    (Len(evalLog) >= 10 /\ \A i \in Last(10) : LogQualifies(i))
        => Triggered

\* Phase 1 completed on the 9th frame of a run that began at counter 1.
C28_Witness ==
    /\ Triggered
    /\ logPhase = 1
    /\ Len(evalLog) = 13
    /\ ~LogQualifies(4)
    /\ \A i \in Last(9) : LogQualifies(i)

\* C29: both sustain counters stay within 0..9; leftGazeFrames is 0
\* whenever currentPhase is not 0 and rightGazeFrames is 0 whenever
\* currentPhase is not 1.
C29_CounterRange ==
    /\ leftGazeFrames \in 0..(leftGazeRequired - 1)
    /\ rightGazeFrames \in 0..(rightGazeRequired - 1)
    /\ currentPhase # 0 => leftGazeFrames = 0
    /\ currentPhase # 1 => rightGazeFrames = 0

\* Nine frames into the look-right gesture.
C29_Witness ==
    /\ currentPhase = 1
    /\ rightGazeFrames = rightGazeRequired - 1
    /\ leftGazeFrames = 0

\* C30: phaseCompleted[0] is true exactly when currentPhase >= 1,
\* phaseCompleted[1] exactly when currentPhase >= 2, and phaseCompleted[2]
\* and phaseCompleted[3] are never true, not even when the session is done.
C30_FlagsFollowPhase ==
    /\ phaseCompleted[0] <=> currentPhase >= 1
    /\ phaseCompleted[1] <=> currentPhase >= 2
    /\ ~phaseCompleted[2]
    /\ ~phaseCompleted[3]

\* The session is done and the call-to-action is up.
C30_Witness ==
    /\ currentPhase = 3
    /\ "cta" \in finalShown
    /\ phaseCompleted = [i \in 0..3 |-> i <= 1]

(***************************************************************************)
(* Frames without a face.                                                  *)
(***************************************************************************)
\* C22: a call of onResults whose results hold no face, or that finds the
\* video without dimensions, leaves the three histories, blinkCount,
\* blinkFrameCounter, currentPhase, phaseCompleted and both sustain counters
\* as they were, so a run of closed-eye frames or of qualifying gaze frames
\* goes on across it.
C22_IdleFrameKeepsSession ==
    [][(/\ Len(frameLog') = Len(frameLog) + 1
        /\ LET r == frameLog'[Len(frameLog')] IN ~r.ready \/ ~r.face)
          => UNCHANGED << earHistory, gazeHistory, pupilSizeHistory,
                          blinkCount, blinkFrameCounter, currentPhase,
                          phaseCompleted, leftGazeFrames, rightGazeFrames >>
      ]_vars

\* Eyes closed, a frame without a face, eyes closed, eyes open: the two
\* closed-eye frames made one blink across the gap.
C22_Witness ==
    /\ Len(frameLog) = 4
    /\ frameLog[1].ready /\ frameLog[1].face
    /\ frameLog[1].earLeft = 12 /\ frameLog[1].earRight = 12
    /\ frameLog[2].ready /\ ~frameLog[2].face
    /\ frameLog[3] = frameLog[1]
    /\ frameLog[4].ready /\ frameLog[4].face
    /\ frameLog[4].earLeft = 30 /\ frameLog[4].earRight = 30
    /\ Len(earHistory) = 3
    /\ blinkCount = 1

(***************************************************************************)
(* The end of the loop and the camera stream.                              *)
(***************************************************************************)
\* No start() is between its guard and the end of its awaits.
StartsSettled == awaitingCamera = 0 /\ awaitingPlay = 0

\* The camera streams the tracker took over or obtained that are still live.
AcquiredLive == liveStreams - (IF preloadedStream THEN 1 ELSE 0)

\* C26: once stop() has run on a running tracker, and as long as start() is
\* not called again, faceMesh.send is not invoked any more.
C26_Original == [][afterStop => sends' <= sends]_vars

\* C27: whenever isRunning is false and no start() call is pending, every
\* stream the tracker acquired has had its tracks stopped; so a start()
\* whose play() rejects leaves no live camera stream behind.
C27_Original == (~isRunning /\ StartsSettled) => AcquiredLive = 0

(***************************************************************************)
(* The instruction overlay and the timers left over from earlier phases.   *)
(***************************************************************************)
\* The timer of that kind registered by advanceToPhase(batch) has not fired.
Pending(kind, batch) == \E t \in timers : t.kind = kind /\ t.batch = batch

\* C24: from the entry into phase 2 until the phase-2 hide timer fires the
\* overlay stays visible with the phase-2 instruction, and until the phase-2
\* fade-in timer fires the action text stays hidden: no timer registered
\* earlier hides the overlay, reveals the action text or replaces the text.
C24_Original ==
    /\ Pending("hide", 2)
          => /\ overlayVisible
             /\ instructionText = "PERFECT"
             /\ instructionAction = "NOW DRAW A CIRCLE"
    /\ Pending("fadeIn", 2) => actionOpacity = 0

C25_Original ==
    /\ (currentPhase = 2) ~> circleTrailEnabled
    /\ (currentPhase = 2) ~> (currentPhase = 3)
    /\ [](currentPhase = 3 => circleTrailEnabled)
    /\ [][currentPhase = 3 => currentPhase' = 3 /\ ~Pending("final", 2)']_vars

(***************************************************************************)
(* One frame, both detectors.                                              *)
(***************************************************************************)
\* C31: no step, a frame evaluation in particular, raises currentPhase by
\* more than 1 or triggers more than one flash; the frame that completes
\* phase 0 triggers one flash and leaves the right counter at 0, although
\* detectRightGaze runs on the same gaze point right after detectLeftGaze.
C31_OneAdvancePerFrame ==
    [][/\ currentPhase' \in {currentPhase, currentPhase + 1}
       /\ flashCount' \in {flashCount, flashCount + 1}
       /\ (currentPhase = 0 /\ currentPhase' = 1)
             => flashCount' = flashCount + 1 /\ rightGazeFrames' = 0
      ]_vars

\* The frame that completed phase 0 has been evaluated: the gaze point both
\* detectors saw is on the left, one flash is on, phase 1 has not begun to
\* count.
C31_Witness ==
    /\ currentPhase = 1
    /\ gazePoint.h > leftGazeThreshold
    /\ flashCount = 1 /\ flashActive
    /\ Pending("fadeIn", 1)
    /\ rightGazeFrames = 0

(***************************************************************************)
(* Means and the chart at the start of a session.                          *)
(***************************************************************************)
\* onResults has been given a frame with a face.
FaceSeen == \E i \in DOMAIN frameLog : frameLog[i].ready /\ frameLog[i].face

\* C32: no mean is taken of an empty buffer: once a frame with a face has
\* been processed the gaze history holds at least 1 sample and the pupil
\* mean is a sum divided by the length, at least 1, of the pupil history
\* that already holds the frame's sample, and before that no mean has been
\* taken; the EAR curve is on the chart only when earHistory holds at least
\* 2 samples.
C32_NoEmptyMean ==
    /\ FaceSeen => /\ Len(gazeHistory) >= 1
                   /\ gazePoint # NoGaze
                   /\ smoothPupilSize.count >= 1
                   /\ smoothPupilSize.count = Len(pupilSizeHistory)
    /\ ~FaceSeen => gazePoint = NoGaze /\ smoothPupilSize = NoPupil
    /\ earChart # 0 => earChart >= 2 /\ earChart = Len(earHistory)
    /\ earChart = 0 => Len(earHistory) < 2

\* A frame without a face and then the first frame with one: both means
\* were taken over one sample and the chart shows no curve.
C32_Witness ==
    /\ Len(frameLog) = 2
    /\ frameLog[1].ready /\ ~frameLog[1].face
    /\ frameLog[2].ready /\ frameLog[2].face
    /\ Len(gazeHistory) = 1
    /\ smoothPupilSize.count = 1
    /\ Len(earHistory) = 1
    /\ earChart = 0

\* C33: the instruction on display never refers to a phase before
\* currentPhase: "LOOK LEFT" is on display only in phase 0, also when the
\* timers of startExperience fire after frames have completed phase 0, and
\* "NOW LOOK RIGHT" only up to phase 1.
C33_Original ==
    overlayVisible
        => /\ instructionText = "LOOK LEFT" => currentPhase = 0
           /\ instructionAction = "NOW LOOK RIGHT" => currentPhase <= 1

====
